---- MODULE Spec2Model ----
(***************************************************************************)
(* Model of the quantity-sheet audit of src/audit.py: the helper functions *)
(* (text normalisation, the restricted numeric evaluator, the ROUND        *)
(* resolvers, the row classifier, the unit/weight heuristics) and the       *)
(* single pass of main() over the rows of the sheet.                       *)
(*                                                                         *)
(* Representation.                                                         *)
(*  - A text is a sequence of glyphs; a glyph is a one-character string.   *)
(*    A Korean word of the source is one glyph written in romanised form   *)
(*    (HangulWords below), because the module is kept ASCII.               *)
(*  - Optional[T] is a sequence of length at most one: None == <<>>,       *)
(*    Some(v) == <<v>>.                                                    *)
(*  - A float is a decimal fixed-point integer with three fractional       *)
(*    digits (6.5 is 6500), magnitudes above MaxNum are clamped to MaxNum, *)
(*    and an operation truncates what it cannot represent.  The sheets of  *)
(*    the model hold only values that this represents exactly.             *)
(*  - A tolerance 0.6 * 10^(-d) is the exact decimal [m |-> 6, e |-> -d-1] *)
(*    (mantissa and decimal exponent), so that no digit count is rounded   *)
(*    away by the fixed-point scale.                                       *)
(***************************************************************************)
EXTENDS Integers, Sequences, FiniteSets, TLC

(***************************************************************************)
(* Bounds of the model.                                                    *)
(***************************************************************************)
\* Longest expression drawn for the evaluator harness (SpecEval).
MaxLen == 3
\* Most data rows below the header part of a sheet (Spec).
MaxRows == 2
\* Largest magnitude of a rounding-digit count drawn for SpecTol.
MaxDigits == 400

(***************************************************************************)
(* Numbers.                                                                *)
(***************************************************************************)
\* Fixed-point scale: three decimal digits.
Scale == 10 * 10 * 10
\* Largest magnitude represented (2000.000); larger ones are clamped.
MaxNum == 2000 * Scale
\* Cap of a digit run read as an integer.
MaxDigitsValue == 100 * Scale * Scale
\* floats: 0.6 * 10**k overflows for k >= 309 and 10**(-k) underflows to 0.0
\* for k >= 324 (IEEE double, sys.float_info).
FloatMaxExp10 == 308
FloatMinExp10 == 323

None == <<>>
Some(v) == <<v>>
IsNone(o) == o = <<>>
Val(o) == o[1]

Abs(a) == IF a < 0 THEN -a ELSE a
Sign(a) == IF a < 0 THEN -1 ELSE 1
Min2(a, b) == IF a < b THEN a ELSE b
Clamp(a) == IF a > MaxNum THEN MaxNum ELSE IF a < -MaxNum THEN -MaxNum ELSE a

RECURSIVE Pow10(_)
Pow10(k) == IF k <= 0 THEN 1 ELSE 10 * Pow10(k - 1)

\* a * b on floats.
MulFix(a, b) ==
    LET x == Abs(a)
        y == Abs(b)
        ix == x \div Scale
        fx == x % Scale
    IN  IF ix * (y \div Scale) > MaxNum \div Scale
        THEN Sign(a) * Sign(b) * MaxNum
        ELSE Clamp(Sign(a) * Sign(b) * (ix * y + ((fx * y) \div Scale)))

\* a / b; ZeroDivisionError is None.
DivFix(a, b) ==
    IF b = 0 THEN None
    ELSE Some(Clamp(Sign(a) * Sign(b) * ((Abs(a) * Scale) \div Abs(b))))

\* a // b (floor); ZeroDivisionError is None.
FloorDivFix(a, b) ==
    IF b = 0 THEN None
    ELSE IF b > 0 THEN Some(Clamp((a \div b) * Scale))
    ELSE Some(Clamp(((-a) \div (-b)) * Scale))

\* a % b (sign of the divisor); ZeroDivisionError is None.
ModFix(a, b) ==
    IF b = 0 THEN None
    ELSE IF b > 0 THEN Some(a % b)
    ELSE Some(-((-a) % (-b)))

\* b ** n for an integer n >= 0, by squaring.
RECURSIVE PowNat(_, _)
PowNat(b, n) ==
    IF n = 0 THEN Scale
    ELSE LET h == PowNat(b, n \div 2)
             sq == MulFix(h, h)
         IN  IF n % 2 = 0 THEN sq ELSE MulFix(sq, b)

\* a ** b.  0 ** negative raises ZeroDivisionError; a negative base with a
\* fractional exponent gives a complex, which as_float turns into None.  A
\* fractional exponent of a positive base is taken at its integer part (an
\* irrational result has no fixed-point value; no text of the model's input
\* sets has a fractional exponent).
PowFix(a, b) ==
    LET n == Abs(b) \div Scale
        frac == Abs(b) % Scale # 0
        p == PowNat(a, n)
    IN  IF frac /\ a < 0 THEN None
        ELSE IF a = 0 /\ b > 0 THEN Some(0)
        ELSE IF b >= 0 THEN Some(p)
        ELSE IF a = 0 THEN None
        ELSE IF p = 0 THEN Some(Sign(a) * MaxNum)
        ELSE DivFix(Scale, p)

\* round(x, digits): correctly rounded, ties to even.
round(x, digits) ==
    IF digits >= 3 THEN x
    ELSE IF digits < -4 THEN 0
    ELSE LET u == Pow10(3 - digits)
             q == Abs(x) \div u
             r == Abs(x) % u
             up == IF 2 * r > u THEN 1
                   ELSE IF 2 * r < u THEN 0
                   ELSE q % 2
         IN  Sign(x) * (q + up) * u

(***************************************************************************)
(* Glyphs and texts.                                                       *)
(***************************************************************************)
DigitGlyphs == <<"0", "1", "2", "3", "4", "5", "6", "7", "8", "9">>
UpperGlyphs == <<"A", "B", "C", "D", "E", "F", "G", "H", "I", "J", "K", "L", "M",
                 "N", "O", "P", "Q", "R", "S", "T", "U", "V", "W", "X", "Y", "Z">>
LowerGlyphs == <<"a", "b", "c", "d", "e", "f", "g", "h", "i", "j", "k", "l", "m",
                 "n", "o", "p", "q", "r", "s", "t", "u", "v", "w", "x", "y", "z">>
\* Korean words of the source, each one glyph:
\*   gongjong 공종, gyugyeok 규격, sanchulgeungeo 산출근거, suryang 수량,
\*   danwi 단위, bigo 비고, ayeondogakgwan 아연도각관, ihyeongcheolgeun 이형철근,
\*   jajae 자재 (a material keyword), seolchi 설치 (an installation keyword),
\*   sanchulseo 산출서 (the rest of a sheet title);
\* and sq_m is the unit glyph U+33A1.
HangulWords == {"gongjong", "gyugyeok", "sanchulgeungeo", "suryang", "danwi",
                "bigo", "ayeondogakgwan", "ihyeongcheolgeun", "jajae", "seolchi",
                "sanchulseo"}

DigitSet == {DigitGlyphs[k] : k \in 1..10}
UpperSet == {UpperGlyphs[k] : k \in 1..26}
LowerSet == {LowerGlyphs[k] : k \in 1..26}
DigitOf == [c \in DigitSet |-> (CHOOSE k \in 1..10 : DigitGlyphs[k] = c) - 1]
LowerOf == [c \in UpperSet |-> LowerGlyphs[CHOOSE k \in 1..26 : UpperGlyphs[k] = c]]
LetterOrdinal == [c \in LowerSet |-> CHOOSE k \in 1..26 : LowerGlyphs[k] = c]

IsDigit(c) == c \in DigitSet
IsUpper(c) == c \in UpperSet
IsLower(c) == c \in LowerSet
IsLetter(c) == IsUpper(c) \/ IsLower(c)
IsSpace(c) == c = " "
\* \w of the re module: letters, digits, underscore and Hangul.
IsWord(c) == IsLetter(c) \/ IsDigit(c) \/ c = "_" \/ c \in HangulWords
DigitVal(c) == DigitOf[c]
\* str.lower / re.IGNORECASE on one glyph.
LowerGlyph(c) == IF IsUpper(c) THEN LowerOf[c] ELSE c
lower(s) == [k \in 1..Len(s) |-> LowerGlyph(s[k])]

At(s, i) == IF i >= 1 /\ i <= Len(s) THEN s[i] ELSE ""
SetMin(S) == CHOOSE a \in S : \A b \in S : a <= b
SetMax(S) == CHOOSE a \in S : \A b \in S : a >= b
\* F applied to the value v: a local name for a value computed once.
Bind(v, F(_)) == F(v)
\* The end (exclusive) of the longest run of glyphs satisfying P from i.
RunEnd(s, i, P(_)) ==
    IF \A j \in i..Len(s) : P(s[j]) THEN Len(s) + 1
    ELSE SetMin({j \in i..Len(s) : ~P(s[j])})
DigitsEnd(s, i) == RunEnd(s, i, IsDigit)
SkipSpaces(s, i) == RunEnd(s, i, IsSpace)
\* Whether pat occurs in s at position i / anywhere (the `in` of str).
MatchAt(s, i, pat) ==
    /\ i >= 1
    /\ i + Len(pat) - 1 <= Len(s)
    /\ \A k \in 1..Len(pat) : s[i + k - 1] = pat[k]
Contains(s, pat) == \E i \in 1..(Len(s) + 1) : MatchAt(s, i, pat)

\* str.strip().
strip(s) ==
    Bind({k \in 1..Len(s) : ~IsSpace(s[k])}, LAMBDA keep :
        IF keep = {} THEN <<>> ELSE SubSeq(s, SetMin(keep), SetMax(keep)))
\* The integer a digit run s[i..j-1] spells, capped.
RECURSIVE DigitsValue(_, _, _, _)
DigitsValue(s, i, j, acc) ==
    IF i >= j THEN acc
    ELSE DigitsValue(s, i + 1, j, Min2(acc * 10 + DigitVal(s[i]), MaxDigitsValue))

\* d * 10^k as a fixed-point float (d an integer, k any integer).
RECURSIVE ShiftDec(_, _)
ShiftDec(d, k) ==
    IF d = 0 \/ k = 0 THEN d
    ELSE IF k > 0 THEN (IF d * 10 > MaxNum THEN MaxNum ELSE ShiftDec(d * 10, k - 1))
    ELSE ShiftDec(d \div 10, k + 1)

\* str() of a non-negative float: integer digits, a point, the fractional
\* digits without trailing zeros (at least one).
RECURSIVE NatDigits(_)
NatDigits(n) == IF n < 10 THEN <<DigitGlyphs[n + 1]>>
                ELSE NatDigits(n \div 10) \o <<DigitGlyphs[(n % 10) + 1]>>
FracDigits(f) ==
    IF f % 100 = 0 THEN <<DigitGlyphs[(f \div 100) + 1]>>
    ELSE IF f % 10 = 0 THEN <<DigitGlyphs[(f \div 100) + 1], DigitGlyphs[((f \div 10) % 10) + 1]>>
    ELSE <<DigitGlyphs[(f \div 100) + 1], DigitGlyphs[((f \div 10) % 10) + 1], DigitGlyphs[(f % 10) + 1]>>
str(v) == (IF v < 0 THEN <<"-">> ELSE <<>>) \o NatDigits(Abs(v) \div Scale) \o <<".">> \o FracDigits(Abs(v) % Scale)

(***************************************************************************)
(* as_float (src/audit.py:121) on the value of a computed result.          *)
(***************************************************************************)
\* A parse or evaluation result: ok, the value, the next position.
Fail == [ok |-> FALSE, v |-> 0, i |-> 0]
Ok(v, i) == [ok |-> TRUE, v |-> v, i |-> i]
OfOption(o, i) == IF IsNone(o) THEN Fail ELSE Ok(Val(o), i)

(***************************************************************************)
(* has_cell_reference (src/audit.py:135):                                  *)
(*   re.search(r"\$?[A-Za-z]{1,3}\$?\d+", expr)                            *)
(***************************************************************************)
has_cell_reference(expr) ==
    \E i \in 1..Len(expr) : \E dollar1 \in {0, 1} : \E nl \in 1..3 : \E dollar2 \in {0, 1} :
        LET l0 == i + dollar1
            d0 == l0 + nl + dollar2
        IN  /\ dollar1 = 1 => At(expr, i) = "$"
            /\ \A k \in l0..(l0 + nl - 1) : IsLetter(At(expr, k))
            /\ dollar2 = 1 => At(expr, l0 + nl) = "$"
            /\ IsDigit(At(expr, d0))

(***************************************************************************)
(* safe_eval_numeric (src/audit.py:139): ast.parse(expr, mode="eval"), the *)
(* walk that allows only Expression, BinOp, UnaryOp, Constant and the      *)
(* operators + - * / ** % // and unary + -, then eval and as_float.        *)
(* The parser below is Python's expression grammar restricted to those     *)
(* nodes; everything else (a name, a call, a tuple, a comparison, a syntax *)
(* error, ZeroDivisionError, a complex or infinite result) is None.        *)
(***************************************************************************)
IsBaseDigit(c, base) ==
    \/ IsDigit(c) /\ DigitVal(c) < base
    \/ base = 16 /\ LowerGlyph(c) \in {"a", "b", "c", "d", "e", "f"}
BaseDigitVal(c) ==
    IF IsDigit(c) THEN DigitVal(c)
    ELSE 9 + LetterOrdinal[LowerGlyph(c)]
RECURSIVE BaseValue(_, _, _, _, _)
BaseValue(s, i, j, base, acc) ==
    IF i >= j THEN acc
    ELSE BaseValue(s, i + 1, j, base, Min2(acc * base + BaseDigitVal(s[i]), MaxNum))

\* digits [. digits] [e [+-] digits] at s[i]: the end, the value, and whether
\* it is a plain integer literal.
FloatToken(s, i) ==
    Bind(DigitsEnd(s, i), LAMBDA a :
    Bind(At(s, a) = ".", LAMBDA hasPoint :
    Bind(IF hasPoint THEN DigitsEnd(s, a + 1) ELSE a, LAMBDA b :
    Bind(IF hasPoint THEN b - (a + 1) ELSE 0, LAMBDA nfrac :
    Bind(LowerGlyph(At(s, b)) = "e", LAMBDA hasE :
    Bind(IF hasE /\ At(s, b + 1) \in {"+", "-"} THEN b + 2 ELSE b + 1, LAMBDA k :
    Bind(IF hasE THEN DigitsEnd(s, k) ELSE b, LAMBDA e :
    Bind(hasE /\ e > k, LAMBDA hasExp :
    Bind(IF ~hasExp THEN 0 ELSE DigitsValue(s, k, e, 0), LAMBDA expo :
        [ok |-> a > i \/ nfrac > 0,
         v |-> ShiftDec(DigitsValue(SubSeq(s, i, a - 1) \o SubSeq(s, a + 1, b - 1), 1,
                                    (a - i) + nfrac + 1, 0),
                        (IF At(s, b + 1) = "-" THEN -expo ELSE expo) - nfrac + 3),
         i |-> IF hasExp THEN e ELSE b,
         int |-> ~hasPoint /\ ~hasExp,
         zeros |-> \A m \in i..(a - 1) : s[m] = "0"])))))))))

\* A Python number literal at s[i]: 0x.. 0o.. 0b.., or a decimal literal (an
\* integer literal with a leading zero is a SyntaxError unless it is all zeros).
BasedToken(s, i, base) ==
    Bind(RunEnd(s, i + 2, LAMBDA c : IsBaseDigit(c, base)), LAMBDA j :
        IF j = i + 2 THEN Fail
        ELSE Ok(Clamp(BaseValue(s, i + 2, j, base, 0) * Scale), j))
DecimalToken(s, i) ==
    Bind(FloatToken(s, i), LAMBDA t :
        IF ~t.ok THEN Fail
        ELSE IF t.int /\ t.i - i > 1 /\ s[i] = "0" /\ ~t.zeros THEN Fail
        ELSE Ok(t.v, t.i))
NumberToken(s, i) ==
    Bind(LowerGlyph(At(s, i + 1)), LAMBDA pre :
        IF At(s, i) = "0" /\ pre \in {"x", "o", "b"}
        THEN BasedToken(s, i, IF pre = "x" THEN 16 ELSE IF pre = "o" THEN 8 ELSE 2)
        ELSE DecimalToken(s, i))

\* The constants True and False (ast.Constant; as_float(True) is 1.0).
KeywordAt(s, i, word) == MatchAt(s, i, word) /\ ~IsWord(At(s, i + Len(word)))

RECURSIVE ParseExpr(_, _)
RECURSIVE ParseFactor(_, _)

\* "(" expr ")" with the "(" at s[j].
ParseParen(s, j) ==
    Bind(ParseExpr(s, j + 1), LAMBDA r :
    Bind(SkipSpaces(s, r.i), LAMBDA k :
        IF r.ok /\ At(s, k) = ")" THEN Ok(r.v, k + 1) ELSE Fail))

\* atom: NUMBER | True | False | "(" expr ")"
ParseAtom(s, i) ==
    Bind(SkipSpaces(s, i), LAMBDA j :
    Bind(At(s, j), LAMBDA c :
        IF IsDigit(c) \/ c = "." THEN NumberToken(s, j)
        ELSE IF KeywordAt(s, j, <<"T", "r", "u", "e">>) THEN Ok(Scale, j + 4)
        ELSE IF KeywordAt(s, j, <<"F", "a", "l", "s", "e">>) THEN Ok(0, j + 5)
        ELSE IF c = "(" THEN ParseParen(s, j)
        ELSE Fail))

\* a ** factor, with the factor at s[j].
ParseExponent(s, a, j) ==
    Bind(ParseFactor(s, j), LAMBDA f :
        IF f.ok THEN OfOption(PowFix(a.v, f.v), f.i) ELSE Fail)

\* power: atom ["**" factor]
ParsePower(s, i) ==
    Bind(ParseAtom(s, i), LAMBDA a :
    Bind(SkipSpaces(s, a.i), LAMBDA j :
        IF ~a.ok THEN Fail
        ELSE IF At(s, j) = "*" /\ At(s, j + 1) = "*" THEN ParseExponent(s, a, j + 2)
        ELSE a))

\* factor: ("+" | "-") factor | power
ParseFactor(s, i) ==
    Bind(SkipSpaces(s, i), LAMBDA j :
    Bind(At(s, j), LAMBDA c :
        IF c \in {"+", "-"}
        THEN Bind(ParseFactor(s, j + 1), LAMBDA f :
                 IF f.ok THEN Ok(IF c = "-" THEN -f.v ELSE f.v, f.i) ELSE Fail)
        ELSE ParsePower(s, j)))

\* acc <op> v for the operators of a term.
TermOp(c, dbl, acc, v) ==
    IF c = "*" THEN Some(MulFix(acc, v))
    ELSE IF c = "/" /\ dbl THEN FloorDivFix(acc, v)
    ELSE IF c = "/" THEN DivFix(acc, v)
    ELSE ModFix(acc, v)

\* term: factor (("*" | "/" | "%" | "//") factor)*
RECURSIVE TermRest(_, _, _)
TermRest(s, acc, i) ==
    Bind(SkipSpaces(s, i), LAMBDA j :
    Bind(At(s, j), LAMBDA c :
    Bind(At(s, j + 1) = c, LAMBDA dbl :
        IF c \in {"/", "%"} \/ (c = "*" /\ ~dbl)
        THEN Bind(ParseFactor(s, IF c = "/" /\ dbl THEN j + 2 ELSE j + 1), LAMBDA f :
             Bind(IF f.ok THEN TermOp(c, dbl, acc, f.v) ELSE None, LAMBDA v :
                 IF ~IsNone(v) THEN TermRest(s, Val(v), f.i) ELSE Fail))
        ELSE Ok(acc, j))))
ParseTerm(s, i) ==
    Bind(ParseFactor(s, i), LAMBDA f :
        IF f.ok THEN TermRest(s, f.v, f.i) ELSE Fail)

\* arith: term (("+" | "-") term)*
RECURSIVE ArithRest(_, _, _)
ArithRest(s, acc, i) ==
    Bind(SkipSpaces(s, i), LAMBDA j :
    Bind(At(s, j), LAMBDA c :
        IF c \in {"+", "-"}
        THEN Bind(ParseTerm(s, j + 1), LAMBDA t :
                 IF t.ok THEN ArithRest(s, Clamp(IF c = "+" THEN acc + t.v ELSE acc - t.v), t.i)
                 ELSE Fail)
        ELSE Ok(acc, j)))
ParseExpr(s, i) ==
    Bind(ParseTerm(s, i), LAMBDA t :
        IF t.ok THEN ArithRest(s, t.v, t.i) ELSE Fail)

\* expr.strip(), one leading "=" dropped, then parse, walk, eval, as_float.
StripFormulaMark(text) ==
    Bind(strip(text), LAMBDA e :
        IF At(e, 1) = "=" THEN strip(SubSeq(e, 2, Len(e))) ELSE e)
ParseAll(e) ==
    Bind(ParseExpr(e, 1), LAMBDA r :
        IF r.ok /\ r.i > Len(e) THEN Some(r.v) ELSE None)
safe_eval_numeric(expr) == ParseAll(StripFormulaMark(expr))
(***************************************************************************)
(* Cells.  The value of an openpyxl cell is None, a str or a number.       *)
(***************************************************************************)
CellNone == [k |-> "none", s |-> <<>>, v |-> 0]
CellText(t) == [k |-> "text", s |-> t, v |-> 0]
CellNum(x) == [k |-> "num", s |-> <<>>, v |-> x]

\* Mutant of normalize_text: the .strip() left out.
normalize_text_unstripped(c) ==
    IF c.k = "none" THEN <<>>
    ELSE IF c.k = "text" THEN c.s
    ELSE str(c.v)
\* normalize_text (src/audit.py:59): "" if v is None else str(v).strip()
normalize_text(c) ==
    IF c.k = "none" THEN <<>>
    ELSE IF c.k = "text" THEN strip(c.s)
    ELSE strip(str(c.v))

\* str.replace(",", "")
RemoveCommas(s) == SelectSeq(s, LAMBDA c : c # ",")

\* float(text) of a stripped text without commas.
FloatOfText(t) ==
    Bind(IF At(t, 1) \in {"+", "-"} THEN 2 ELSE 1, LAMBDA i :
    Bind(FloatToken(t, i), LAMBDA f :
        IF (IsDigit(At(t, i)) \/ At(t, i) = ".") /\ f.ok /\ f.i > Len(t)
        THEN Some(IF At(t, 1) = "-" THEN -f.v ELSE f.v)
        ELSE None))

\* as_float (src/audit.py:121): None is None, a finite number is itself, a
\* str is float(str(v).strip().replace(",", "")), None when that raises.
\* (The cached numbers of the sheets are finite; "nan" and "inf" texts are
\* not among the glyph sequences of the model.)
as_float(c) ==
    IF c.k = "none" THEN None
    ELSE IF c.k = "num" THEN Some(c.v)
    ELSE FloatOfText(strip(RemoveCommas(strip(c.s))))
(***************************************************************************)
(* The rounding resolver.                                                  *)
(***************************************************************************)
ROUND == <<"r", "o", "u", "n", "d">>

\* The tail \s*(-?\d+)\s*\) of the ROUND patterns after the comma at c: the
\* digits parsed and the position after the ")", or no match.
DigitsTail(s, c) ==
    Bind(SkipSpaces(s, c + 1), LAMBDA k :
    Bind(IF At(s, k) = "-" THEN k + 1 ELSE k, LAMBDA d0 :
    Bind(DigitsEnd(s, d0), LAMBDA d1 :
    Bind(SkipSpaces(s, d1), LAMBDA e :
        IF d1 > d0 /\ At(s, e) = ")"
        THEN Ok(IF d0 > k THEN -DigitsValue(s, d0, d1, 0) ELSE DigitsValue(s, d0, d1, 0), e + 1)
        ELSE Fail))))

\* The commas after a ROUND( at p that the tail matches at.
RoundCommas(formula, low, p) ==
    Bind(SkipSpaces(formula, p + 5), LAMBDA q :
        IF MatchAt(low, p, ROUND) /\ At(formula, q) = "("
        THEN {c \in (q + 1)..Len(formula) : formula[c] = "," /\ DigitsTail(formula, c).ok}
        ELSE {})

\* parse_round_digits (src/audit.py:172):
\*   re.search(r"ROUND\s*\(.*?,\s*(-?\d+)\s*\)", formula, re.IGNORECASE)
\* the leftmost ROUND( and, after it, the first comma the tail matches at.
parse_round_digits(formula) ==
    Bind(lower(formula), LAMBDA low :
    Bind({p \in 1..Len(formula) : RoundCommas(formula, low, p) # {}}, LAMBDA starts :
        IF formula = <<>> \/ starts = {} THEN None
        ELSE Some(DigitsTail(formula, SetMin(RoundCommas(formula, low, SetMin(starts)))).v)))

\* get_round_digits_for_row (src/audit.py:184)
get_round_digits_for_row(e_formula, default_digits) ==
    Bind(parse_round_digits(e_formula), LAMBDA n :
        IF ~IsNone(n) THEN Val(n) ELSE default_digits)
\* tol_from_round_digits (src/audit.py:189): 0.6 * (10 ** (-round_digits)).
\* For round_digits <= 0 the power is an int, and 0.6 * int raises
\* OverflowError once the int exceeds the largest float; for round_digits > 0
\* the power is a float, which underflows to 0.0.
tol_raises(round_digits) == -round_digits > FloatMaxExp10
\* Mutant of tol_from_round_digits: max(0.6 * 10 ** (-round_digits), 0.01).
tol_from_round_digits_floor(round_digits) ==
    IF round_digits > 1 THEN [m |-> 1, e |-> -2] ELSE [m |-> 6, e |-> -round_digits - 1]
tol_from_round_digits(round_digits) ==
    [m |-> IF round_digits > FloatMinExp10 THEN 0 ELSE 6, e |-> -round_digits - 1]

\* diff > tol, diff a fixed-point float and tol a decimal m * 10^e.
Exceeds(diff, tol) ==
    IF tol.m = 0 \/ tol.e < -3 THEN diff > 0
    ELSE IF tol.e > 4 THEN FALSE
    ELSE diff > tol.m * Pow10(tol.e + 3)
\* tol >= 10^(-k), for a decimal tol (its mantissa is below 10).
TolAtLeastPow10(tol, k) == tol.m > 0 /\ tol.e >= -k

\* A number ([0-9]+(?:\.[0-9]+)?) at s[i]: its end, its value, and whether
\* the value is exact to 1e-9 (its 4th to 9th fractional digits are zeros).
PlainNumber(s, i) ==
    Bind(DigitsEnd(s, i), LAMBDA a :
    Bind(IF At(s, a) = "." THEN DigitsEnd(s, a + 1) ELSE a, LAMBDA b0 :
    Bind(IF b0 > a + 1 THEN b0 ELSE a, LAMBDA b :
        [ok |-> a > i,
         v |-> FloatToken(SubSeq(s, i, b - 1), 1).v,
         i |-> b,
         exact |-> \A m \in (a + 4)..Min2(a + 9, b - 1) : s[m] = "0"])))

\* Column letters to the column index (A is 1, AA is 27).
RECURSIVE ColumnIndex(_, _)
ColumnIndex(letters, acc) ==
    IF letters = <<>> THEN acc
    ELSE ColumnIndex(Tail(letters), acc * 26 + LetterOrdinal[LowerGlyph(Head(letters))])

NoRefMatch == [ok |-> FALSE, col |-> 0, row |-> 0, mult |-> 0, digits |-> 0]
\* The rest of the match from the end a of the reference f[l0..r1-1]: the
\* optional "* number", the comma, the digits, the ")" and the end.
RoundRefTail(f, l0, l1, r1, a) ==
    Bind(At(f, a) = "*", LAMBDA star :
    Bind(PlainNumber(f, SkipSpaces(f, a + 1)), LAMBDA num :
    Bind(IF star THEN SkipSpaces(f, num.i) ELSE a, LAMBDA c :
    Bind(DigitsTail(f, c), LAMBDA tail :
        IF /\ star => num.ok
           /\ At(f, c) = ","
           /\ tail.ok
           /\ SkipSpaces(f, tail.i) > Len(f)
        THEN [ok |-> TRUE,
              col |-> ColumnIndex(SubSeq(f, l0, l1 - 1), 0),
              row |-> DigitsValue(f, l1, r1, 0),
              mult |-> IF star THEN num.v ELSE Scale,
              digits |-> tail.v]
        ELSE NoRefMatch))))
\* The match of eval_e_round_ref_formula (src/audit.py:244):
\*   ROUND\s*\(\s*([A-Za-z]{1,3}\d+)\s*(?:\*\s*([0-9]+(?:\.[0-9]+)?))?\s*,\s*(-?\d+)\s*\)\s*$
\* on the formula without its "=": the referenced column and row, the
\* multiplier (1.0 when absent) and the digits.
RoundRefHead(f) ==
    Bind(SkipSpaces(f, 6), LAMBDA q :
    Bind(SkipSpaces(f, q + 1), LAMBDA l0 :
    Bind(RunEnd(f, l0, IsLetter), LAMBDA l1 :
    Bind(DigitsEnd(f, l1), LAMBDA r1 :
        IF /\ MatchAt(lower(f), 1, ROUND)
           /\ At(f, q) = "("
           /\ l1 - l0 \in 1..3
           /\ r1 > l1
        THEN RoundRefTail(f, l0, l1, r1, SkipSpaces(f, r1))
        ELSE NoRefMatch))))
RoundRefMatch(e_formula) == RoundRefHead(StripFormulaMark(e_formula))

\* Whether the tail after the comma at c matches up to the end of f.
TailToEnd(f, c) ==
    Bind(DigitsTail(f, c), LAMBDA t : t.ok /\ SkipSpaces(f, t.i) > Len(f))
\* The inner expression and the digits around the comma at c.
PureRound(f, q, c) ==
    Bind(strip(SubSeq(f, q + 1, c - 1)), LAMBDA inner :
    Bind(DigitsTail(f, c).v, LAMBDA digits :
    Bind(IF has_cell_reference(inner) THEN None ELSE safe_eval_numeric(inner), LAMBDA val :
        IF IsNone(val) THEN None
        ELSE Some([expected |-> round(Val(val), digits), digits |-> digits]))))
PureRoundMatch(f) ==
    Bind(SkipSpaces(f, 6), LAMBDA q :
    Bind({c \in (q + 2)..Len(f) : f[c] = "," /\ TailToEnd(f, c)}, LAMBDA commas :
        IF ~(MatchAt(lower(f), 1, ROUND) /\ At(f, q) = "(" /\ commas # {}) THEN None
        ELSE PureRound(f, q, SetMax(commas))))
\* eval_e_round_pure_formula (src/audit.py:264):
\*   re.match(r"ROUND\s*\(\s*(.+)\s*,\s*(-?\d+)\s*\)\s*$", f, re.IGNORECASE)
\* the greedy (.+) ends at the last comma; an inner with a cell reference or
\* one that does not evaluate gives None.  Returns (expected, digits).
eval_e_round_pure_formula(e_formula) ==
    IF e_formula = <<>> THEN None ELSE PureRoundMatch(StripFormulaMark(e_formula))

\* d_has_multiplier (src/audit.py:293): the numbers after a "*" in the basis
\* text without its commas, re.findall(r"\*\s*([0-9]+(?:\.[0-9]+)?)"), one of
\* them within 1e-9 of mult.
MultiplierAt(t, i, mult) ==
    Bind(PlainNumber(t, SkipSpaces(t, i + 1)), LAMBDA n :
        t[i] = "*" /\ n.ok /\ n.v = mult /\ n.exact)
d_has_multiplier(d_text, mult) ==
    /\ d_text # <<>>
    /\ \E i \in 1..Len(RemoveCommas(d_text)) : MultiplierAt(RemoveCommas(d_text), i, mult)

(***************************************************************************)
(* The row classifier and the percentage token.                            *)
(***************************************************************************)
\* f"{a} {b}"
Join(a, b) == a \o <<" ">> \o b

\* any(k.lower() in text for k in keys), with the guard `keys and`.
AnyKeyword(keys, text) ==
    keys # <<>> /\ \E k \in 1..Len(keys) : Contains(text, lower(keys[k]))
\* Mutant of classify_row_type: the installation keywords are tried first.
classify_row_type_install_first(work, spec, unit, bigo, rules) ==
    Bind(lower(Join(Join(Join(work, spec), unit), bigo)), LAMBDA text :
        IF AnyKeyword(rules.installation_keywords_any, text) THEN "installation"
        ELSE IF AnyKeyword(rules.material_keywords_any, text) THEN "material"
        ELSE "unknown")
\* classify_row_type (src/audit.py:195)
classify_row_type(work, spec, unit, bigo, rules) ==
    Bind(lower(Join(Join(Join(work, spec), unit), bigo)), LAMBDA text :
        IF AnyKeyword(rules.material_keywords_any, text) THEN "material"
        ELSE IF AnyKeyword(rules.installation_keywords_any, text) THEN "installation"
        ELSE "unknown")

\* percent_regex.search(bigo) with the default pattern (src/audit.py:407),
\*   (\d+(\.\d+)?)%
\* the leftmost match; returns group(1), or None.
PercentMatchAt(s, p) ==
    Bind(DigitsEnd(s, p), LAMBDA a :
    Bind(DigitsEnd(s, a + 1), LAMBDA b :
        IF a = p THEN None
        ELSE IF At(s, a) = "." /\ b > a + 1 /\ At(s, b) = "%" THEN Some(SubSeq(s, p, b - 1))
        ELSE IF At(s, a) = "%" THEN Some(SubSeq(s, p, a - 1))
        ELSE None))
percent_search(bigo) ==
    Bind({p \in 1..Len(bigo) : ~IsNone(PercentMatchAt(bigo, p))}, LAMBDA starts :
        IF starts = {} THEN None ELSE PercentMatchAt(bigo, SetMin(starts)))

(***************************************************************************)
(* unit_weight_check (src/audit.py:208): the list of (severity, rule_name). *)
(***************************************************************************)
\* re.search(r"\b<letter>\s*\d+(\.\d+)?\b", spec, re.IGNORECASE); the optional
\* fraction never decides the match, the boundary after the digits does.
SizeTokenAt(spec, p, letter) ==
    Bind(SkipSpaces(spec, p + 1), LAMBDA d0 :
    Bind(DigitsEnd(spec, d0), LAMBDA d1 :
        /\ LowerGlyph(spec[p]) = letter
        /\ ~IsWord(At(spec, p - 1))
        /\ d1 > d0
        /\ ~IsWord(At(spec, d1))))
HasSizeToken(spec, letter) == \E p \in 1..Len(spec) : SizeTokenAt(spec, p, letter)

Issue(sev, rule) == [severity |-> sev, rule_name |-> rule]
\* The issues of an item that is not a galvanised square pipe (lines 217-228).
weight_issues(spec, w, u) ==
    (IF (Contains(w, <<"s", "t", " ", "p", "l">>) \/ Contains(w, <<"s", "t", "s", " ", "p", "l">>))
        /\ ~HasSizeToken(spec, "t")
     THEN <<Issue("MEDIUM", "unit_weight:plate-thickness")>> ELSE <<>>)
    \o
    (IF Contains(w, <<"a", "n", "g", "l", "e">>) /\ u \in {<<"m">>, <<"m", "2">>, <<"sq_m">>}
     THEN <<Issue("LOW", "unit_weight:angle-39.65")>> ELSE <<>>)
    \o
    (IF Contains(w, <<"ihyeongcheolgeun">>) /\ ~HasSizeToken(spec, "d")
     THEN <<Issue("MEDIUM", "unit_weight:rebar-diameter")>> ELSE <<>>)
unit_weight_check(work, spec, unit) ==
    Bind(lower(strip(unit)), LAMBDA u :
        IF Contains(Join(work, spec), <<"ayeondogakgwan">>)
        THEN (IF u = <<"k", "g">> THEN <<Issue("HIGH", "unit_weight:ayeondogakgwan")>> ELSE <<>>)
        ELSE weight_issues(spec, lower(Join(work, spec)), u))
(* The inputs: the rules file and the sheet.                               *)
(***************************************************************************)
T_(t) == IF t = <<>> THEN CellNone ELSE CellText(t)
\* One row of the sheet, columns A..G: the formula view f (data_only=False)
\* and the value view v (data_only=True), which differ in the quantity cell.
SheetRow(a, work, spec, basis, qty_formula, qty_value, unit, bigo) ==
    [f |-> <<T_(a), T_(work), T_(spec), T_(basis), qty_formula, T_(unit), T_(bigo)>>,
     v |-> <<T_(a), T_(work), T_(spec), T_(basis), qty_value, T_(unit), T_(bigo)>>]

\* Texts of the rows.
JAJAE == <<"jajae">>
SEOLCHI == <<"seolchi">>
BENCH == <<"b", "e", "n", "c", "h">>
ANGLE == <<"A", "n", "g", "l", "e">>
ST_PL == <<"S", "T", " ", "P", "L">>
PCT4 == <<"+", "4", "%">>
PCT7 == <<"7", "%">>
B_2x3 == <<"2", "*", "3">>
B_100 == <<"1", "0", "0">>
B_100x104 == <<"1", "0", "0", "*", "1", ".", "0", "4">>
B_104x100 == <<"1", ".", "0", "4", "*", "1", "0", "0">>
B_1e2 == <<"1", "e", "2">>
B_1div0 == <<"1", "/", "0">>
F_ROUND_2x3_3 == <<"=", "R", "O", "U", "N", "D", "(", "2", "*", "3", ",", "3", ")">>
F_round_2x3_2 == <<"=", "r", "o", "u", "n", "d", "(", "2", "*", "3", ",", " ", "2", ")">>
F_ROUND_E2x104_3 == <<"=", "R", "O", "U", "N", "D", "(", "E", "2", "*", "1", ".", "0", "4", ",", "3", ")">>
F_ROUND_2x3_m400 == <<"=", "R", "O", "U", "N", "D", "(", "2", "*", "3", ",", "-", "4", "0", "0", ")">>

\* The header row, and a title row with "suryang sanchulseo" in column A.
HeaderRow ==
    SheetRow(<<>>, <<"gongjong">>, <<"gyugyeok">>, <<"sanchulgeungeo">>,
             CellText(<<"suryang">>), CellText(<<"suryang">>), <<"danwi">>, <<"bigo">>)
TitleRow ==
    SheetRow(<<"suryang", "sanchulseo">>, <<>>, <<>>, <<>>, CellNone, CellNone, <<>>, <<>>)

\* The rows a sheet is made of.
RowCatalog == <<
    HeaderRow,
    TitleRow,
    \* 3: an empty row
    SheetRow(<<>>, <<>>, <<>>, <<>>, CellNone, CellNone, <<>>, <<>>),
    \* 4: a row of spaces only
    SheetRow(<<>>, <<" ">>, <<>>, <<" ", " ">>, CellNone, CellNone, <<>>, <<" ">>),
    \* 5: basis 2*3, the quantity typed as 6.5; an angle item in m
    SheetRow(<<>>, ANGLE, <<>>, B_2x3, CellNum(6500), CellNum(6500), <<"m">>, <<>>),
    \* 6: basis 2*3, =ROUND(2*3,3) cached as 6.000; an unmapped 7%
    SheetRow(<<>>, BENCH, <<>>, B_2x3, CellText(F_ROUND_2x3_3), CellNum(6000), <<>>, PCT7),
    \* 7: =round(2*3, 2) cached as 6.001; a mapped 4% on an unclassified row
    SheetRow(<<>>, BENCH, <<>>, B_2x3, CellText(F_round_2x3_2), CellNum(6001), <<>>, PCT4),
    \* 8: an installation item with +4% and a basis that divides by zero
    SheetRow(<<>>, SEOLCHI, <<>>, B_1div0, CellNum(100000), CellNum(100000), <<>>, PCT4),
    \* 9: an installation plate item without thickness, with an unmapped 7%
    SheetRow(<<>>, SEOLCHI, ST_PL, B_100, CellNum(100000), CellNum(100000), <<>>, PCT7),
    \* 10: a material item, +4%, the basis already multiplied: 100*1.04
    SheetRow(<<>>, JAJAE, <<>>, B_100x104, CellNum(104000), CellNum(104000), <<>>, PCT4),
    \* 11: a material item, +4%, the factor first: 1.04*100
    SheetRow(<<>>, JAJAE, <<>>, B_104x100, CellNum(104000), CellNum(104000), <<>>, PCT4),
    \* 12: a material item, +4%, =ROUND(E2*1.04,3) cached as 104, basis 2*3
    SheetRow(<<>>, JAJAE, <<>>, B_2x3, CellText(F_ROUND_E2x104_3), CellNum(104000), <<>>, PCT4),
    \* 13: a basis that is the literal 1e2, the quantity 5
    SheetRow(<<>>, BENCH, <<>>, B_1e2, CellNum(5000), CellNum(5000), <<>>, <<>>),
    \* 14: =ROUND(2*3,-400)
    SheetRow(<<>>, BENCH, <<>>, B_2x3, CellText(F_ROUND_2x3_m400), CellNum(0), <<>>, <<>>),
    \* 15: both a material and an installation keyword, +4%, basis 100, quantity 105
    SheetRow(<<>>, JAJAE \o <<" ">> \o SEOLCHI, <<>>, B_100, CellNum(105000), CellNum(105000), <<>>, PCT4)
>>
RowId(row) == CHOOSE k \in 1..Len(RowCatalog) : RowCatalog[k] = row
HeaderRowId == RowId(HeaderRow)
TitleRowId == RowId(TitleRow)
DataRowIds == (1..Len(RowCatalog)) \ {HeaderRowId, TitleRowId}

\* The rules: rules.yml as loaded; a key that is absent is None.
RulesDefault ==
    [material_keywords_any |-> <<JAJAE>>,
     installation_keywords_any |-> <<SEOLCHI>>,
     allowance_multiplier_map |-> {[key |-> <<"4", "%">>, mult |-> 1040]},
     round_default_digits |-> None,
     policy_installation_has_allowance_severity |-> None]
RulesCustom ==
    [material_keywords_any |-> << <<"J", "A", "J", "A", "E">>, JAJAE >>,
     installation_keywords_any |-> <<SEOLCHI>>,
     allowance_multiplier_map |-> {[key |-> <<"4", "%">>, mult |-> 1040]},
     round_default_digits |-> Some(1),
     policy_installation_has_allowance_severity |-> Some("CRITICAL")]
RulesSet == {RulesDefault, RulesCustom}

\* Sheets: nothing, a header, a title, or a title and a header, then data rows.
RECURSIVE SeqsUpTo(_, _)
SeqsUpTo(S, n) ==
    IF n = 0 THEN {<<>>}
    ELSE LET p == SeqsUpTo(S, n - 1)
         IN  p \cup {Append(q, x) : q \in {u \in p : Len(u) = n - 1}, x \in S}
SheetPrefixes == {<<>>, <<HeaderRowId>>, <<TitleRowId>>, <<TitleRowId, HeaderRowId>>}
Sheets == {pre \o data : pre \in SheetPrefixes, data \in SeqsUpTo(DataRowIds, MaxRows)}

\* Evaluator inputs (SpecEval): the texts of at most MaxLen of these glyphs.
EvalGlyphs == {"0", "1", "2", "e", "x", "A", "$", "*", "-", "."}
EvalTexts == SeqsUpTo(EvalGlyphs, MaxLen)

(***************************************************************************)
(* State.                                                                  *)
(***************************************************************************)
VARIABLES
    rules,        \* the loaded rules
    sheet,        \* the sheet: its rows, each an index of RowCatalog
    pc,           \* where main() is
    header_row,   \* detect_columns' results
    cols,
    r,            \* the row of the loop
    row_type,     \* locals of the loop body that outlive a check
    round_digits,
    tol,
    d_numeric,
    errors,       \* the discrepancy list
    report,       \* what build_reports wrote: None, or the records
    exit_status,  \* None while running, then the process's exit status
    expr,         \* evaluator harness: the expression
    eval_out      \* evaluator harness: what the evaluations returned

vars == <<rules, sheet, pc, header_row, cols, r, row_type, round_digits, tol,
          d_numeric, errors, report, exit_status, expr, eval_out>>
audit_vars == <<rules, sheet, header_row, cols, r, row_type, round_digits, tol,
                d_numeric, errors, report, exit_status>>

\* ws.max_row (1 for an empty sheet) and the cells of the two views; a cell
\* beyond the rows of the sheet is an empty cell.
max_row == IF Len(sheet) = 0 THEN 1 ELSE Len(sheet)
MaxColumn == Len(HeaderRow.f)
InSheet(rr, c) == rr \in 1..Len(sheet) /\ c \in 1..MaxColumn
ws_formula(rr, c) == IF InSheet(rr, c) THEN RowCatalog[sheet[rr]].f[c] ELSE CellNone
ws_value(rr, c) == IF InSheet(rr, c) THEN RowCatalog[sheet[rr]].v[c] ELSE CellNone

(***************************************************************************)
(* detect_columns (src/audit.py:86).                                       *)
(***************************************************************************)
\* Rows and columns the header scan looks at.
HeaderScanRows == 20
HeaderScanColumns == 40
DefaultColumns == [work |-> 2, spec |-> 3, basis |-> 4, qty |-> 5, unit |-> 6, bigo |-> 7]

\* One keyword of one cell: found, it moves its column and counts a hit.
Hit(acc, found, key, idx) ==
    IF found THEN [columns |-> [acc.columns EXCEPT ![key] = idx], hit |-> acc.hit + 1]
    ELSE acc
\* One cell of the scan (src/audit.py:98-110).
ScanCell(st, text, idx) ==
    Hit(Hit(Hit(Hit(Hit(Hit(st,
        Contains(text, <<"gongjong">>), "work", idx),
        Contains(text, <<"gyugyeok">>), "spec", idx),
        Contains(text, <<"sanchulgeungeo">>), "basis", idx),
        Contains(text, <<"suryang">>), "qty", idx),
        Contains(text, <<"danwi">>), "unit", idx),
        Contains(text, <<"bigo">>) \/ Contains(lower(text), <<"r", "e", "m", "a", "r", "k">>),
        "bigo", idx)
RECURSIVE ScanRow(_, _, _)
ScanRow(st, rr, idx) ==
    IF idx > Min2(MaxColumn, HeaderScanColumns) THEN st
    ELSE ScanRow(ScanCell(st, normalize_text(ws_formula(rr, idx)), idx), rr, idx + 1)
RECURSIVE ScanRows(_, _)
ScanRows(columns, rr) ==
    IF rr > Min2(max_row, HeaderScanRows) THEN [header_row |-> 1, columns |-> columns]
    ELSE Bind(ScanRow([columns |-> columns, hit |-> 0], rr, 1), LAMBDA st :
             IF st.hit >= 2 THEN [header_row |-> rr, columns |-> st.columns]
             ELSE ScanRows(st.columns, rr + 1))
\* Mutant of detect_columns: the row returned as a 0-based index.
detect_columns_zero_based ==
    [header_row |-> ScanRows(DefaultColumns, 1).header_row - 1,
     columns |-> ScanRows(DefaultColumns, 1).columns]
detect_columns == ScanRows(DefaultColumns, 1)

(***************************************************************************)
(* The fields of row rr (src/audit.py:416-422).                            *)
(***************************************************************************)
RowFields(rr) ==
    [work |-> normalize_text(ws_formula(rr, cols.work)),
     spec |-> normalize_text(ws_formula(rr, cols.spec)),
     d_text |-> normalize_text(ws_formula(rr, cols.basis)),
     e_formula |-> normalize_text(ws_formula(rr, cols.qty)),
     e_value |-> as_float(ws_value(rr, cols.qty)),
     unit |-> normalize_text(ws_formula(rr, cols.unit)),
     bigo |-> normalize_text(ws_formula(rr, cols.bigo))]
\* not any([work, spec, d_text, e_formula, unit, bigo])  (src/audit.py:424)
RowIsBlank(f) ==
    /\ f.work = <<>> /\ f.spec = <<>> /\ f.d_text = <<>>
    /\ f.e_formula = <<>> /\ f.unit = <<>> /\ f.bigo = <<>>

\* rules.get(key, default) of the two scalar keys (src/audit.py:410-411).
default_round_digits ==
    IF IsNone(rules.round_default_digits) THEN 3 ELSE Val(rules.round_default_digits)
sev_install_has_allowance ==
    IF IsNone(rules.policy_installation_has_allowance_severity) THEN "HIGH"
    ELSE Val(rules.policy_installation_has_allowance_severity)

\* The referenced cell's cached value, times the multiplier, rounded.
RoundRefValue(m, v) ==
    IF IsNone(v) THEN None
    ELSE Some([expected |-> round(MulFix(Val(v), m.mult), m.digits),
               ref_row |-> m.row, ref_col |-> m.col, mult |-> m.mult, digits |-> m.digits])
\* Mutant of eval_e_round_ref_formula: the referenced cell is read from the
\* formula view.
eval_e_round_ref_formula_from_formula_view(formula) ==
    Bind(RoundRefMatch(formula), LAMBDA m :
        IF formula = <<>> \/ ~m.ok THEN None
        ELSE RoundRefValue(m, as_float(ws_formula(m.row, m.col))))
\* eval_e_round_ref_formula (src/audit.py:232), ws_value being the value view.
eval_e_round_ref_formula(formula) ==
    Bind(RoundRefMatch(formula), LAMBDA m :
        IF formula = <<>> \/ ~m.ok THEN None
        ELSE RoundRefValue(m, as_float(ws_value(m.row, m.col))))

\* Mutant of eval_basis: the guard `not has_cell_reference(d_text)` left out.
eval_basis_unguarded(text) ==
    IF text # <<>> THEN safe_eval_numeric(text) ELSE None
\* The guarded evaluation of the basis text (src/audit.py:461-462, 588-589).
eval_basis(text) ==
    IF text # <<>> /\ ~has_cell_reference(text) THEN safe_eval_numeric(text) ELSE None

\* An ErrorRecord (src/audit.py:26).  reason and related_formula are texts
\* built from the row's fields and decide nothing; rule is the kind of
\* rule_name.
ErrorRecord(row, cell, check_type, severity, rule, actual, expected, difference, tolerance) ==
    [row |-> row, cell |-> cell, check_type |-> check_type, severity |-> severity,
     rule_name |-> rule, actual_value |-> actual, expected_value |-> expected,
     difference |-> difference, tol |-> tolerance]

(***************************************************************************)
(* The checks of one row, main() (src/audit.py:434-617).  f is the row's   *)
(* fields.                                                                 *)
(***************************************************************************)
Expected(expected, digits, d_num, rule) ==
    [expected_from_e |-> expected, round_digits |-> digits, d_numeric |-> d_num, rule_name |-> rule]
\* 1-C (src/audit.py:459-465): the basis text rounded to the row's digits.
calc_from_basis(d_num, rd0) ==
    IF ~IsNone(d_num) THEN Expected(Some(round(Val(d_num), rd0)), rd0, d_num, "D_round")
    ELSE Expected(None, rd0, None, "")
\* 1-B (src/audit.py:450-456): the pure ROUND of the quantity formula.
calc_from_pure(f, pure_eval, rd0) ==
    IF ~IsNone(pure_eval)
    THEN Expected(Some(Val(pure_eval).expected), Val(pure_eval).digits, None, "E:ROUND(pure_expr)")
    ELSE calc_from_basis(eval_basis(f.d_text), rd0)
\* 1-A (src/audit.py:441-447): the referencing ROUND of the quantity formula.
calc_from_ref(f, ref_eval, rd0) ==
    IF ~IsNone(ref_eval)
    THEN Expected(Some(Val(ref_eval).expected), Val(ref_eval).digits, None, "E:ROUND(ref)")
    ELSE calc_from_pure(f, eval_e_round_pure_formula(f.e_formula), rd0)
\* Mutant of calc_expected: the computed-value check gated on the percentage
\* token, as the surcharge checks are.
calc_expected_gated(f, rd0) ==
    IF IsNone(percent_search(f.bigo)) THEN Expected(None, rd0, None, "")
    ELSE calc_from_ref(f, eval_e_round_ref_formula(f.e_formula), rd0)
\* (1) the expected value of calc_text_check (src/audit.py:437-465); rd0 is the
\* row's round_digits from line 431.
calc_expected(f, rd0) == calc_from_ref(f, eval_e_round_ref_formula(f.e_formula), rd0)

\* Mutant of calc_record: any difference is reported, the tolerance ignored.
calc_record_exact(rr, f, c, diff, t) ==
    IF ~IsNone(c.expected_from_e) /\ ~IsNone(f.e_value) /\ diff > 0
    THEN <<ErrorRecord(rr, "D/E", "calc_text_check", "HIGH", c.rule_name,
                       f.e_value, c.expected_from_e, Some(diff), Some(t))>>
    ELSE <<>>
\* The comparison and the record (src/audit.py:467-484).
calc_record(rr, f, c, diff, t) ==
    IF ~IsNone(c.expected_from_e) /\ ~IsNone(f.e_value) /\ Exceeds(diff, t)
    THEN <<ErrorRecord(rr, "D/E", "calc_text_check", "HIGH", c.rule_name,
                       f.e_value, c.expected_from_e, Some(diff), Some(t))>>
    ELSE <<>>
calc_text_check(rr, f, c) ==
    calc_record(rr, f, c,
                IF IsNone(c.expected_from_e) \/ IsNone(f.e_value) THEN 0
                ELSE Abs(Val(c.expected_from_e) - Val(f.e_value)),
                tol_from_round_digits(c.round_digits))

\* (2) unit_weight (src/audit.py:489-499).
issue_records(rr, issues) ==
    [k \in 1..Len(issues) |->
        ErrorRecord(rr, "F", "unit_weight", issues[k].severity, issues[k].rule_name,
                    None, None, None, None)]
unit_weight_records(rr, f) == issue_records(rr, unit_weight_check(f.work, f.spec, f.unit))

\* allowance_map lookups (src/audit.py:509, 523).
InAllowanceMap(percent_text) ==
    \E e \in rules.allowance_multiplier_map : e.key = percent_text
AllowanceOf(percent_text) ==
    (CHOOSE e \in rules.allowance_multiplier_map : e.key = percent_text).mult

ZeroTol == [m |-> 0, e |-> 0]
\* 3-B-1 (src/audit.py:544-585): the declared formula is a referencing ROUND.
multiplier_mismatch(rr, ref_eval2, multiplier, dm) ==
    IF dm > 0
    THEN <<ErrorRecord(rr, "E", "allowance_check", "MEDIUM", "percent",
                       Some(ref_eval2.mult), Some(multiplier), Some(dm), Some(ZeroTol))>>
    ELSE <<>>
ref_value_mismatch(rr, f, ref_eval2, diff2, tol2) ==
    IF Exceeds(diff2, tol2)
    THEN <<ErrorRecord(rr, "E", "allowance_check", "MEDIUM", "percent | E ref",
                       f.e_value, Some(ref_eval2.expected), Some(diff2), Some(tol2))>>
    ELSE <<>>
allowance_ref_records(rr, f, ref_eval2, multiplier) ==
    multiplier_mismatch(rr, ref_eval2, multiplier, Abs(ref_eval2.mult - multiplier))
    \o ref_value_mismatch(rr, f, ref_eval2, Abs(ref_eval2.expected - Val(f.e_value)),
                          tol_from_round_digits(ref_eval2.digits))

\* 3-B-2 (src/audit.py:588-617): the basis value, times the multiplier unless
\* d_has_multiplier finds it in the basis text.
basis_mismatch(rr, f, has, expected_allow, diff3, tol3) ==
    IF Exceeds(diff3, tol3)
    THEN <<ErrorRecord(rr, "E", "allowance_check", "MEDIUM",
                       IF has THEN "percent | D already has" ELSE "percent | D*",
                       f.e_value, Some(expected_allow), Some(diff3), Some(tol3))>>
    ELSE <<>>
basis_expected(rr, f, has, expected_allow, rd) ==
    basis_mismatch(rr, f, has, expected_allow, Abs(expected_allow - Val(f.e_value)),
                   tol_from_round_digits(rd))
allowance_basis_value(rr, f, d_num, has, rd, multiplier) ==
    IF IsNone(d_num) THEN <<>>
    ELSE basis_expected(rr, f, has,
                        IF has THEN round(Val(d_num), rd)
                        ELSE round(MulFix(Val(d_num), multiplier), rd),
                        rd)
\* d_numeric after line 588-589.
basis_value(f, d_num0) == IF IsNone(d_num0) THEN eval_basis(f.d_text) ELSE d_num0
allowance_basis_records(rr, f, d_num0, rd, multiplier) ==
    allowance_basis_value(rr, f, basis_value(f, d_num0),
                          d_has_multiplier(f.d_text, multiplier), rd, multiplier)

\* 3-B (src/audit.py:542-617): a material row with a declared value.
allowance_material(rr, f, ref_eval2, d_num0, rd, multiplier) ==
    IF ~IsNone(ref_eval2) THEN allowance_ref_records(rr, f, Val(ref_eval2), multiplier)
    ELSE allowance_basis_records(rr, f, d_num0, rd, multiplier)
\* 3-A, 3-B (src/audit.py:523-617): the percentage is in the map.
allowance_mapped(rr, f, rt, d_num0, rd, multiplier) ==
    IF rt = "installation"
    THEN <<ErrorRecord(rr, "E", "allowance_policy_check", sev_install_has_allowance, "percent",
                       None, None, None, None)>>
    ELSE IF rt = "material" /\ ~IsNone(f.e_value)
    THEN allowance_material(rr, f, eval_e_round_ref_formula(f.e_formula), d_num0, rd, multiplier)
    ELSE <<>>
\* lines 504-521: no token, or a token the map lacks.
allowance_token(rr, f, rt, d_num0, rd, m) ==
    IF IsNone(m) THEN <<>>
    ELSE IF ~InAllowanceMap(Val(m) \o <<"%">>)
    THEN <<ErrorRecord(rr, "G", "allowance_check", "MEDIUM", "allowance_multiplier_map missing",
                       None, None, None, None)>>
    ELSE allowance_mapped(rr, f, rt, d_num0, rd, AllowanceOf(Val(m) \o <<"%">>))
\* (3) the surcharge checks (src/audit.py:504-617).
allowance_records(rr, f, rt, d_num0, rd) ==
    allowance_token(rr, f, rt, d_num0, rd, percent_search(f.bigo))

\* Whether the surcharge checks reach line 588 (and so may set d_numeric).
ReachesBasisBranch(f, rt) ==
    /\ ~IsNone(percent_search(f.bigo))
    /\ InAllowanceMap(Val(percent_search(f.bigo)) \o <<"%">>)
    /\ rt = "material"
    /\ ~IsNone(f.e_value)
    /\ IsNone(eval_e_round_ref_formula(f.e_formula))

(***************************************************************************)
(* main() (src/audit.py:385): the pass over the sheet.                     *)
(***************************************************************************)
NoEval == [done |-> FALSE, has_ref |-> FALSE, direct |-> None, basis |-> None, pure |-> None]

Init ==
    /\ rules \in RulesSet
    /\ sheet \in Sheets
    /\ pc = "start"
    /\ header_row = 0
    /\ cols = DefaultColumns
    /\ r = 0
    /\ row_type = "unknown"
    /\ round_digits = 0
    /\ tol = ZeroTol
    /\ d_numeric = None
    /\ errors = <<>>
    /\ report = None
    /\ exit_status = None
    /\ expr = <<>>
    /\ eval_out = NoEval

\* lines 401-413: the columns, the configuration, the empty list.
DetectColumns ==
    /\ pc = "start"
    /\ \E d \in {detect_columns} :
          /\ header_row' = d.header_row
          /\ cols' = d.columns
          /\ r' = d.header_row + 1
    /\ errors' = <<>>
    /\ pc' = "row"
    /\ UNCHANGED <<rules, sheet, row_type, round_digits, tol, d_numeric, report, exit_status,
                   expr, eval_out>>

\* lines 416-425: a row whose six fields are all blank is passed over.
SkipBlankRow ==
    /\ pc = "row"
    /\ r <= max_row
    /\ RowIsBlank(RowFields(r))
    /\ r' = r + 1
    /\ UNCHANGED <<rules, sheet, pc, header_row, cols, row_type, round_digits, tol, d_numeric,
                   errors, report, exit_status, expr, eval_out>>

\* Mutant of BeginRow: round_digits is not reset for a row without a ROUND
\* call; past the first data row the previous row's digits stand in for the
\* configured default.
BeginRowKeepsDigits ==
    /\ pc = "row"
    /\ r <= max_row
    /\ \E f \in {RowFields(r)} :
          /\ ~RowIsBlank(f)
          /\ \E rd \in {get_round_digits_for_row(f.e_formula,
                            IF r = header_row + 1 THEN default_round_digits ELSE round_digits)} :
                /\ ~tol_raises(rd)
                /\ round_digits' = rd
                /\ tol' = tol_from_round_digits(rd)
          /\ row_type' = classify_row_type(f.work, f.spec, f.unit, f.bigo, rules)
    /\ pc' = "calc"
    /\ UNCHANGED <<rules, sheet, header_row, cols, r, d_numeric, errors, report, exit_status,
                   expr, eval_out>>
\* lines 428-432: the row's type, its rounding digits and tolerance.
BeginRow ==
    /\ pc = "row"
    /\ r <= max_row
    /\ \E f \in {RowFields(r)} :
          /\ ~RowIsBlank(f)
          /\ \E rd \in {get_round_digits_for_row(f.e_formula, default_round_digits)} :
                /\ ~tol_raises(rd)
                /\ round_digits' = rd
                /\ tol' = tol_from_round_digits(rd)
          /\ row_type' = classify_row_type(f.work, f.spec, f.unit, f.bigo, rules)
    /\ pc' = "calc"
    /\ UNCHANGED <<rules, sheet, header_row, cols, r, d_numeric, errors, report, exit_status,
                   expr, eval_out>>

\* line 432 raising OverflowError: nothing catches it, the interpreter prints
\* the traceback and exits with status 1; build_reports is never reached.
TolOverflow ==
    /\ pc = "row"
    /\ r <= max_row
    /\ \E f \in {RowFields(r)} :
          /\ ~RowIsBlank(f)
          /\ tol_raises(get_round_digits_for_row(f.e_formula, default_round_digits))
          /\ row_type' = classify_row_type(f.work, f.spec, f.unit, f.bigo, rules)
    /\ pc' = "crashed"
    /\ exit_status' = Some(1)
    /\ UNCHANGED <<rules, sheet, header_row, cols, r, round_digits, tol, d_numeric, errors,
                   report, expr, eval_out>>

\* lines 437-484.
CalcTextCheck ==
    /\ pc = "calc"
    /\ \E f \in {RowFields(r)} : \E c \in {calc_expected(f, round_digits)} :
          /\ round_digits' = c.round_digits
          /\ tol' = tol_from_round_digits(c.round_digits)
          /\ d_numeric' = c.d_numeric
          /\ errors' = errors \o calc_text_check(r, f, c)
    /\ pc' = "unit"
    /\ UNCHANGED <<rules, sheet, header_row, cols, r, row_type, report, exit_status, expr, eval_out>>

\* Mutant of UnitWeightCheck: the row's records are put at the head of the
\* list.
UnitWeightCheckPrepends ==
    /\ pc = "unit"
    /\ errors' = unit_weight_records(r, RowFields(r)) \o errors
    /\ pc' = "allowance"
    /\ UNCHANGED <<rules, sheet, header_row, cols, r, row_type, round_digits, tol, d_numeric,
                   report, exit_status, expr, eval_out>>
\* lines 489-499.
UnitWeightCheck ==
    /\ pc = "unit"
    /\ errors' = errors \o unit_weight_records(r, RowFields(r))
    /\ pc' = "allowance"
    /\ UNCHANGED <<rules, sheet, header_row, cols, r, row_type, round_digits, tol, d_numeric,
                   report, exit_status, expr, eval_out>>

\* lines 504-617, and on to the next row.
AllowanceCheck ==
    /\ pc = "allowance"
    /\ \E f \in {RowFields(r)} :
          /\ errors' = errors \o allowance_records(r, f, row_type, d_numeric, round_digits)
          /\ d_numeric' = IF ReachesBasisBranch(f, row_type) THEN basis_value(f, d_numeric)
                          ELSE d_numeric
    /\ r' = r + 1
    /\ pc' = "row"
    /\ UNCHANGED <<rules, sheet, header_row, cols, row_type, round_digits, tol, report,
                   exit_status, expr, eval_out>>

\* lines 619-625: build_reports writes the records in list order; exit 0.
BuildReports ==
    /\ pc = "row"
    /\ r > max_row
    /\ report' = Some(errors)
    /\ exit_status' = Some(0)
    /\ pc' = "done"
    /\ UNCHANGED <<rules, sheet, header_row, cols, r, row_type, round_digits, tol, d_numeric,
                   errors, expr, eval_out>>

Next ==
    \/ DetectColumns
    \/ SkipBlankRow
    \/ BeginRow
    \/ TolOverflow
    \/ CalcTextCheck
    \/ UnitWeightCheck
    \/ AllowanceCheck
    \/ BuildReports

Spec == Init /\ [][Next]_vars

(***************************************************************************)
(* The evaluator on its own: every short text over EvalGlyphs is given to  *)
(* has_cell_reference, to safe_eval_numeric, to the guarded evaluation of  *)
(* a basis text, and, wrapped as =ROUND(text,3), to the pure ROUND         *)
(* resolver.                                                               *)
(***************************************************************************)
WrapRound(text) == <<"=", "R", "O", "U", "N", "D", "(">> \o text \o <<",", "3", ")">>
ExpectedOf(o) == IF IsNone(o) THEN None ELSE Some(Val(o).expected)

InitEval ==
    /\ rules = RulesDefault
    /\ sheet = <<>>
    /\ pc = "eval"
    /\ header_row = 0
    /\ cols = DefaultColumns
    /\ r = 0
    /\ row_type = "unknown"
    /\ round_digits = 0
    /\ tol = ZeroTol
    /\ d_numeric = None
    /\ errors = <<>>
    /\ report = None
    /\ exit_status = None
    /\ expr \in EvalTexts
    /\ eval_out = NoEval

Evaluate ==
    /\ pc = "eval"
    /\ eval_out' = [done |-> TRUE,
                    has_ref |-> has_cell_reference(expr),
                    direct |-> safe_eval_numeric(expr),
                    basis |-> eval_basis(expr),
                    pure |-> ExpectedOf(eval_e_round_pure_formula(WrapRound(expr)))]
    /\ pc' = "evaluated"
    /\ UNCHANGED <<audit_vars, expr>>

NextEval == Evaluate

SpecEval == InitEval /\ [][NextEval]_vars

(***************************************************************************)
(* tol_from_round_digits on its own: every digit count of magnitude up to  *)
(* MaxDigits.                                                              *)
(***************************************************************************)
InitTol ==
    /\ rules = RulesDefault
    /\ sheet = <<>>
    /\ pc = "tol"
    /\ header_row = 0
    /\ cols = DefaultColumns
    /\ r = 0
    /\ row_type = "unknown"
    /\ round_digits \in (-MaxDigits)..MaxDigits
    /\ tol = ZeroTol
    /\ d_numeric = None
    /\ errors = <<>>
    /\ report = None
    /\ exit_status = None
    /\ expr = <<>>
    /\ eval_out = NoEval

\* The call returns.
TolReturns ==
    /\ pc = "tol"
    /\ ~tol_raises(round_digits)
    /\ tol' = tol_from_round_digits(round_digits)
    /\ pc' = "tol_done"
    /\ UNCHANGED <<rules, sheet, header_row, cols, r, row_type, round_digits, d_numeric, errors,
                   report, exit_status, expr, eval_out>>

\* The call raises OverflowError.
TolRaises ==
    /\ pc = "tol"
    /\ tol_raises(round_digits)
    /\ pc' = "tol_raised"
    /\ UNCHANGED <<rules, sheet, header_row, cols, r, row_type, round_digits, tol, d_numeric,
                   errors, report, exit_status, expr, eval_out>>

NextTol == TolReturns \/ TolRaises

SpecTol == InitTol /\ [][NextTol]_vars

(***************************************************************************)
(* Properties.                                                             *)
(***************************************************************************)
\* C1 (as claimed): for every expression with a cell-reference-shaped token
\* (has_cell_reference), safe_eval_numeric returns None, never a number.
C1_EvaluatorRejectsReferences ==
    eval_out.done /\ eval_out.has_ref => IsNone(eval_out.direct)

\* C1 (amended): for every expression with a cell-reference-shaped token, the
\* evaluations the audit performs, which are guarded by has_cell_reference
\* (the basis text at lines 461 and 588, the inner expression of a pure ROUND
\* at line 283), give None; and an expression without such a token gets, as a
\* basis text, exactly what safe_eval_numeric returns for it.
C1_GuardedEvaluation ==
    eval_out.done =>
        /\ eval_out.has_ref => IsNone(eval_out.basis) /\ IsNone(eval_out.pure)
        /\ ~eval_out.has_ref /\ expr # <<>> => eval_out.basis = eval_out.direct

\* C1 witness: a text with a cell-reference-shaped token that safe_eval_numeric
\* evaluates to a number (1e2 is 100.0) and the guarded evaluations reject.
C1_Witness ==
    /\ eval_out.done
    /\ expr = <<"1", "e", "2">>
    /\ eval_out.has_ref
    /\ eval_out.direct = Some(100 * Scale)
    /\ IsNone(eval_out.basis)
    /\ IsNone(eval_out.pure)

\* C2 (as claimed): for every digit count d >= 0 the tolerance is at least
\* the floor 0.01 (and so never zero).
C2_ToleranceFloor ==
    pc = "tol_done" /\ round_digits >= 0 => TolAtLeastPow10(tol, 2)

\* C2 (amended): for every digit count d >= 0 the tolerance is 0.6 * 10^(-d)
\* with no floor: at least 0.01 exactly when d <= 1, positive exactly when
\* d <= 323, and 0.0 from d = 324 on.
C2_ToleranceWithoutFloor ==
    pc = "tol_done" /\ round_digits >= 0 =>
        /\ TolAtLeastPow10(tol, 2) <=> round_digits <= 1
        /\ tol.m > 0 <=> round_digits <= FloatMinExp10
        /\ tol.m > 0 => tol = [m |-> 6, e |-> -round_digits - 1]

\* C2 witness: three digits give 0.0006, below 0.01.
C2_Witness ==
    /\ pc = "tol_done"
    /\ round_digits = 3
    /\ tol = [m |-> 6, e |-> -4]
    /\ ~TolAtLeastPow10(tol, 2)

\* The rows the pass has finished with, and the records of a row.
ProcessedRows == {rr \in (header_row + 1)..Len(sheet) : pc # "start" /\ rr < r}
RecordsOf(rr, kinds) == SelectSeq(errors, LAMBDA e : e.row = rr /\ e.check_type \in kinds)
SurchargeKinds == {"allowance_policy_check", "allowance_check"}
AlwaysOnKinds == {"calc_text_check", "unit_weight"}
\* The row's rounding digits (line 431) and its classification (line 428).
RowDigits(f) == get_round_digits_for_row(f.e_formula, default_round_digits)
RowType(f) == classify_row_type(f.work, f.spec, f.unit, f.bigo, rules)
HasPercent(f) == ~IsNone(percent_search(f.bigo))

\* A number equal to mult that is a factor of a product in text: a "*" (not
\* a "**") directly before it or after it, spaces aside.
StarBefore(t, i) ==
    \E j \in 1..(i - 1) : /\ t[j] = "*" /\ At(t, j - 1) # "*"
                          /\ \A k \in (j + 1)..(i - 1) : t[k] = " "
StarAfter(t, i) ==
    At(t, SkipSpaces(t, i)) = "*" /\ At(t, SkipSpaces(t, i) + 1) # "*"
FactorInBasis(text, mult) ==
    \E i \in 1..Len(text) :
        /\ IsDigit(text[i])
        /\ ~IsDigit(At(text, i - 1)) /\ At(text, i - 1) # "."
        /\ PlainNumber(text, i).v = mult /\ PlainNumber(text, i).exact
        /\ StarBefore(text, i) \/ StarAfter(text, PlainNumber(text, i).i)

\* C3 (as claimed): in the surcharge value check of a Material row whose
\* declared formula is not a referencing ROUND, the expected value is the
\* rounded basis value when the basis text has a factor equal to the
\* multiplier, in any position of a product, and round(basis * m) only when it
\* has none.
C3_NoDoubleSurcharge ==
    \A k \in 1..Len(errors) :
        /\ errors[k].check_type = "allowance_check"
        /\ errors[k].cell = "E"
        /\ ~RoundRefMatch(RowFields(errors[k].row).e_formula).ok
        => errors[k].expected_value =
              Some(IF FactorInBasis(RowFields(errors[k].row).d_text,
                                    AllowanceOf(Val(percent_search(RowFields(errors[k].row).bigo)) \o <<"%">>))
                   THEN round(Val(eval_basis(RowFields(errors[k].row).d_text)),
                              RowDigits(RowFields(errors[k].row)))
                   ELSE round(MulFix(Val(eval_basis(RowFields(errors[k].row).d_text)),
                                     AllowanceOf(Val(percent_search(RowFields(errors[k].row).bigo)) \o <<"%">>)),
                              RowDigits(RowFields(errors[k].row))))

\* C4 (as claimed, for the default severity): every processed row classified
\* Installation whose remarks have a percentage token has an
\* allowance_policy_check record of HIGH severity without numeric fields,
\* whatever the percentage is.
C4_InstallationPolicy ==
    \A rr \in ProcessedRows :
        /\ RowType(RowFields(rr)) = "installation"
        /\ HasPercent(RowFields(rr))
        /\ IsNone(rules.policy_installation_has_allowance_severity)
        => \E k \in 1..Len(errors) :
              /\ errors[k].row = rr
              /\ errors[k].check_type = "allowance_policy_check"
              /\ errors[k].severity = "HIGH"
              /\ IsNone(errors[k].expected_value) /\ IsNone(errors[k].difference)

\* C5 (as claimed): a processed row classified Unknown has no surcharge record
\* (neither allowance_policy_check nor allowance_check), whatever its remarks.
C5_UnknownNoSurcharge ==
    \A rr \in ProcessedRows :
        RowType(RowFields(rr)) = "unknown" => RecordsOf(rr, SurchargeKinds) = <<>>

\* The always-on checks of a row with the fields f.
AlwaysOnChecks(rr, f) ==
    calc_text_check(rr, f, calc_expected(f, RowDigits(f))) \o unit_weight_records(rr, f)
\* C6: when the pass over the rows has ended (the report written, or the
\* audit aborted), every processed row whose remarks have no percentage token
\* has no allowance_policy_check and no allowance_check record, and its
\* calc_text_check and unit_weight records are those the same row gets with a
\* percentage in its remarks.
C6_PercentGating ==
    pc \in {"done", "crashed"} => \A rr \in ProcessedRows :
        Bind(RowFields(rr), LAMBDA f :
            ~RowIsBlank(f) /\ ~HasPercent(f) =>
                /\ RecordsOf(rr, SurchargeKinds) = <<>>
                /\ RecordsOf(rr, AlwaysOnKinds)
                      = AlwaysOnChecks(rr, [f EXCEPT !.bigo = @ \o <<" ">> \o PCT4]))
\* C6 witness: a row without a percentage token that has a calc_text_check
\* record and a unit_weight record, and no surcharge record.
C6_Witness ==
    /\ pc = "done"
    /\ \E rr \in ProcessedRows :
          /\ ~HasPercent(RowFields(rr))
          /\ RecordsOf(rr, {"calc_text_check"}) # <<>>
          /\ RecordsOf(rr, {"unit_weight"}) # <<>>
          /\ RecordsOf(rr, SurchargeKinds) = <<>>

\* The expected value the claim names and its digits: the pure ROUND of the
\* declared formula, else the basis evaluated and rounded to the row's digits.
ClaimOfPure(pure, f) ==
    IF ~IsNone(pure) THEN [expected |-> Some(Val(pure).expected), digits |-> Val(pure).digits]
    ELSE Bind(eval_basis(f.d_text), LAMBDA d :
             [expected |-> IF IsNone(d) THEN None ELSE Some(round(Val(d), RowDigits(f))),
              digits |-> RowDigits(f)])
ClaimExpected(f) == ClaimOfPure(eval_e_round_pure_formula(f.e_formula), f)
C7_RowHolds(recs, f, expected, diff, digits) ==
    IF Exceeds(diff, tol_from_round_digits(digits))
    THEN /\ Len(recs) = 1
         /\ recs[1].severity = "HIGH"
         /\ recs[1].expected_value = Some(expected)
         /\ recs[1].actual_value = f.e_value
         /\ recs[1].difference = Some(diff)
    ELSE recs = <<>>
C7_RowClaim(rr, f, c) ==
    /\ ~IsNone(c.expected)
    /\ ~IsNone(f.e_value)
    => C7_RowHolds(RecordsOf(rr, {"calc_text_check"}), f, Val(c.expected),
                   Abs(Val(c.expected) - Val(f.e_value)), c.digits)
C7_Row(rr, f) ==
    ~RowIsBlank(f) /\ ~RoundRefMatch(f.e_formula).ok => C7_RowClaim(rr, f, ClaimExpected(f))
HeaderKeys == {"work", "spec", "basis", "qty", "unit", "bigo"}
NamesField(text, key) ==
    CASE key = "work" -> Contains(text, <<"gongjong">>)
      [] key = "spec" -> Contains(text, <<"gyugyeok">>)
      [] key = "basis" -> Contains(text, <<"sanchulgeungeo">>)
      [] key = "qty" -> Contains(text, <<"suryang">>)
      [] key = "unit" -> Contains(text, <<"danwi">>)
      [] OTHER -> Contains(text, <<"bigo">>)
                  \/ Contains(lower(text), <<"r", "e", "m", "a", "r", "k">>)
ScannedRows == 1..Min2(max_row, HeaderScanRows)
ScannedColumns == 1..Min2(MaxColumn, HeaderScanColumns)
\* For every row of the catalogue, the columns whose cell names a field.
NamingColumns ==
    [k \in 1..Len(RowCatalog) |->
        [key \in HeaderKeys |->
            {c \in ScannedColumns : NamesField(normalize_text(RowCatalog[k].f[c]), key)}]]
NamingColumnsOf(rr, key) == IF rr \in 1..Len(sheet) THEN NamingColumns[sheet[rr]][key] ELSE {}
RECURSIVE SumOver(_, _, _)
SumOver(rr, keys, acc) ==
    IF keys = {} THEN acc
    ELSE Bind(CHOOSE key \in keys : TRUE, LAMBDA key :
             SumOver(rr, keys \ {key}, acc + Cardinality(NamingColumnsOf(rr, key))))
HeaderHits(rr) == SumOver(rr, HeaderKeys, 0)
NoHeaderDetectable == \A rr \in ScannedRows : HeaderHits(rr) < 2
\* The column of the last scanned cell that names the field, else its default.
LastNamingRow(key) == SetMax({rr \in ScannedRows : NamingColumnsOf(rr, key) # {}})
FallbackColumn(key) ==
    IF \A rr \in ScannedRows : NamingColumnsOf(rr, key) = {} THEN DefaultColumns[key]
    ELSE SetMax(NamingColumnsOf(LastNamingRow(key), key))

\* C8 as stated: on a sheet with no detectable header row (no scanned row
\* with two header hits), the empty sheet included, the audit aborts: no row
\* check leaves a record, no report is written, and the completion status is
\* never 0.
C8_MalformedTableFatal ==
    NoHeaderDetectable =>
        /\ errors = <<>>
        /\ report = None
        /\ exit_status # Some(0)
\* C8 as the code has it: on a sheet with no detectable header row, the empty
\* sheet included, header detection does not abort; row 1 is taken as the
\* header row, every field keeps column B..G by default or takes the column
\* of the last scanned cell that names it, the rows from row 2 on are checked
\* as data rows, and when the pass over the rows ends the report holds every
\* record found and the completion status is 0.
C8_HeaderFallback ==
    NoHeaderDetectable =>
        /\ pc # "start" =>
              /\ header_row = 1
              /\ r >= 2
              /\ \A key \in HeaderKeys : cols[key] = FallbackColumn(key)
        /\ pc = "done" =>
              /\ r = max_row + 1
              /\ report = Some(errors)
              /\ exit_status = Some(0)
\* C8 witness: a sheet of data rows only, no header; row 1 was taken as the
\* header, row 2 was checked and left records, and the report was written
\* with status 0.
C8_Witness ==
    /\ NoHeaderDetectable
    /\ Len(sheet) >= 2
    /\ pc = "done"
    /\ header_row = 1
    /\ \E k \in 1..Len(errors) : errors[k].row = 2
    /\ report = Some(errors)
    /\ exit_status = Some(0)

(***************************************************************************)
(* C9: a failure in one row.                                               *)
(***************************************************************************)
\* C9: whatever the rows hold (an expression that cannot be evaluated, any
\* rounding-digit value parsed from the declared formula, any percentage
\* token), no row ends the audit: the pass over the rows never stops on an
\* exception and the process never exits with the status of an uncaught one.
C9_RowFailureContained ==
    /\ pc # "crashed"
    /\ exit_status # Some(1)

(***************************************************************************)
(* C10: blank rows.                                                        *)
(***************************************************************************)
AllKinds == {"calc_text_check", "unit_weight", "allowance_check", "allowance_policy_check"}
\* A cell whose text is blank after trimming: no value, or spaces only.
FieldBlank(c) ==
    \/ c.k = "none"
    \/ c.k = "text" /\ \A i \in 1..Len(c.s) : IsSpace(c.s[i])
TrackedFields == {"work", "spec", "basis", "qty", "unit", "bigo"}
TrackedBlank(rr) == \A key \in TrackedFields : FieldBlank(ws_formula(rr, cols[key]))
\* C10: at the top of the loop, a row whose six tracked fields are all blank
\* after trimming is passed over in one step that leaves the discrepancy list
\* as it was, and a row with a non-blank tracked field is not passed over: its
\* checks begin (or its tolerance raises); and no record ever names a row
\* whose six tracked fields are blank.
C10_BlankRowSkipping ==
    /\ [][(pc = "row" /\ r <= max_row) =>
            IF TrackedBlank(r)
            THEN r' = r + 1 /\ pc' = "row" /\ errors' = errors
            ELSE r' = r /\ pc' \in {"calc", "crashed"} /\ errors' = errors]_vars
    /\ [](\A rr \in ProcessedRows : TrackedBlank(rr) => RecordsOf(rr, AllKinds) = <<>>)
\* C10 witness: the row of spaces only was passed over after a row that left
\* records, and the list is as that row left it.
C10_Witness ==
    /\ pc = "row"
    /\ r - 1 \in ProcessedRows
    /\ r - 2 \in ProcessedRows
    /\ TrackedBlank(r - 1)
    /\ \E key \in TrackedFields : ws_formula(r - 1, cols[key]).k = "text"
    /\ ~TrackedBlank(r - 2)
    /\ errors # <<>>
    /\ \A k \in 1..Len(errors) : errors[k].row < r - 1

(***************************************************************************)
(* C11: the discrepancy list as a function of the inputs.                  *)
(***************************************************************************)
\* The records of row rr computed from its fields, the rules and the value
\* view alone: nothing of the pass's locals is read.
RowRecords(rr, f, c) ==
    calc_text_check(rr, f, c) \o unit_weight_records(rr, f)
        \o allowance_records(rr, f, RowType(f), c.d_numeric, c.round_digits)
FreshRecords(rr, f) ==
    IF RowIsBlank(f) THEN <<>> ELSE RowRecords(rr, f, calc_expected(f, RowDigits(f)))
RECURSIVE PassRecords(_, _)
PassRecords(rr, last) ==
    IF rr > last THEN <<>>
    ELSE FreshRecords(rr, RowFields(rr)) \o PassRecords(rr + 1, last)
\* C11: when a pass has ended, the header row and the columns are those the
\* sheet determines, and the discrepancy list is, in order, the records each
\* processed row gets from its own fields, the value view and the rules: the
\* list is a function of the formula view, the value view and the
\* configuration, so a second pass over the same inputs gives the identical
\* list, and nothing left behind by one row reaches the records of another.
C11_Deterministic ==
    pc \in {"done", "crashed"} =>
        /\ [header_row |-> header_row, columns |-> cols] = detect_columns
        /\ errors = PassRecords(header_row + 1, r - 1)
        /\ pc = "done" => r = max_row + 1 /\ report = Some(errors)
\* C11 witness: a finished pass in which a row whose formula sets its own
\* digits is followed by a row without a ROUND call that has a calc_text_check
\* record: the digits the first row left in the locals are not the second
\* row's, and the list is the one the rows determine.
C11_Witness ==
    /\ pc = "done"
    /\ \E rr \in ProcessedRows :
          /\ rr + 1 \in ProcessedRows
          /\ RowDigits(RowFields(rr)) # RowDigits(RowFields(rr + 1))
          /\ ~IsNone(parse_round_digits(RowFields(rr).e_formula))
          /\ IsNone(parse_round_digits(RowFields(rr + 1).e_formula))
          /\ RecordsOf(rr + 1, {"calc_text_check"}) # <<>>
    /\ errors = PassRecords(header_row + 1, max_row)

(***************************************************************************)
(* C12: the classifier's precedence.                                       *)
(***************************************************************************)
\* The lower-cased concatenation of work type, specification, unit and
\* remarks, and whether a keyword of a list (compared in lower case) occurs
\* in it.
RowText(f) == lower(f.work \o <<" ">> \o f.spec \o <<" ">> \o f.unit \o <<" ">> \o f.bigo)
Occurs(keys, text) == \E k \in 1..Len(keys) : Contains(text, lower(keys[k]))
MatchesMaterial(f) == Occurs(rules.material_keywords_any, RowText(f))
MatchesInstallation(f) == Occurs(rules.installation_keywords_any, RowText(f))
PrecedenceOf(text) ==
    IF Occurs(rules.material_keywords_any, text) THEN "material"
    ELSE IF Occurs(rules.installation_keywords_any, text) THEN "installation"
    ELSE "unknown"
\* The same text read from the four cells of row rr.
RowTextAt(rr) ==
    lower(normalize_text(ws_formula(rr, cols.work)) \o <<" ">>
          \o normalize_text(ws_formula(rr, cols.spec)) \o <<" ">>
          \o normalize_text(ws_formula(rr, cols.unit)) \o <<" ">>
          \o normalize_text(ws_formula(rr, cols.bigo)))
MappedPercent(f) ==
    HasPercent(f) /\ InAllowanceMap(Val(percent_search(f.bigo)) \o <<"%">>)
\* The surcharge records of a Material row with a mapped percentage.
MaterialValueCheck(rr, f, c) ==
    allowance_mapped(rr, f, "material", c.d_numeric, c.round_digits,
                     AllowanceOf(Val(percent_search(f.bigo)) \o <<"%">>))
C12_Row(rr, f) ==
    MappedPercent(f) /\ MatchesMaterial(f) /\ MatchesInstallation(f) =>
        /\ RecordsOf(rr, {"allowance_policy_check"}) = <<>>
        /\ RecordsOf(rr, {"allowance_check"})
              = MaterialValueCheck(rr, f, calc_expected(f, RowDigits(f)))
\* C12: while a row is being checked its type is Material if a material
\* keyword occurs in the lower-cased concatenation of work type,
\* specification, unit and remarks, whether or not an installation keyword
\* occurs too, Installation if none does and an installation keyword occurs,
\* and Unknown otherwise; and when the pass has ended, a row that matches
\* both lists and has a mapped percentage has no allowance_policy_check
\* record, its allowance_check records being those of the Material value
\* check.
C12_ClassifierPrecedence ==
    /\ pc \in {"calc", "unit", "allowance"} => row_type = PrecedenceOf(RowTextAt(r))
    /\ pc \in {"done", "crashed"} => \A rr \in ProcessedRows : C12_Row(rr, RowFields(rr))
\* C12 witness: a row with both a material and an installation keyword and
\* the mapped +4%, basis 100 and declared 105: it was classified Material and
\* has the value check's record (expected 104), not the policy record.
C12_Witness ==
    /\ pc = "done"
    /\ \E rr \in ProcessedRows :
          /\ MatchesMaterial(RowFields(rr)) /\ MatchesInstallation(RowFields(rr))
          /\ MappedPercent(RowFields(rr))
          /\ RecordsOf(rr, {"allowance_policy_check"}) = <<>>
          /\ \E k \in 1..Len(errors) :
                /\ errors[k].row = rr /\ errors[k].check_type = "allowance_check"
                /\ errors[k].expected_value = Some(104 * Scale)
                /\ errors[k].actual_value = Some(105 * Scale)

(***************************************************************************)
(* C13: severities and check kinds.                                        *)
(***************************************************************************)
Severities == {"HIGH", "MEDIUM", "LOW"}
\* C13: in every reachable state, under either configuration, every record
\* of the discrepancy list has its severity in {HIGH, MEDIUM, LOW} and its
\* check kind in {calc_text_check, unit_weight, allowance_policy_check,
\* allowance_check}.
C13_ClosedEnumeration ==
    \A k \in 1..Len(errors) :
        /\ errors[k].severity \in Severities
        /\ errors[k].check_type \in AllKinds

(***************************************************************************)
(* C14: the order of the discrepancy list.                                 *)
(***************************************************************************)
IsPrefix(a, b) == Len(a) <= Len(b) /\ SubSeq(b, 1, Len(a)) = a
\* Place of a check kind within its row: (1), (2), then the surcharge checks.
KindRank(kind) ==
    CASE kind = "calc_text_check" -> 1
      [] kind = "unit_weight" -> 2
      [] OTHER -> 3
InPassOrder(list) ==
    \A i, j \in 1..Len(list) :
        i < j => \/ list[i].row < list[j].row
                 \/ /\ list[i].row = list[j].row
                    /\ KindRank(list[i].check_type) <= KindRank(list[j].check_type)
\* C14: every step leaves the records already in the discrepancy list as they
\* are and where they are, adding records at its end only; a written report is
\* never changed; at every point the records are in non-decreasing row order,
\* within a row the calc_text_check record before the unit_weight records
\* before the allowance_policy_check and allowance_check records; and the
\* written report holds the list in that order.
C14_AppendOnlyRowOrdered ==
    /\ [][IsPrefix(errors, errors') /\ (report # None => report' = report)]_vars
    /\ [](InPassOrder(errors))
    /\ [](pc = "done" => report = Some(errors))
\* C14 witness: a written report with the records of two rows, a
\* calc_text_check record followed by a unit_weight record of the same row,
\* and a unit_weight record followed by a surcharge record of a later row.
C14_Witness ==
    /\ pc = "done"
    /\ report = Some(errors)
    /\ \E i, j \in 1..Len(errors) :
          /\ i + 1 <= Len(errors) /\ j + 1 <= Len(errors)
          /\ errors[i].row < errors[j].row
          /\ errors[i].check_type = "calc_text_check"
          /\ errors[i + 1].row = errors[i].row /\ errors[i + 1].check_type = "unit_weight"
          /\ errors[j].check_type = "unit_weight"
          /\ errors[j + 1].row = errors[j].row
          /\ errors[j + 1].check_type \in SurchargeKinds

(***************************************************************************)
(* C15: the expected value of a referencing ROUND.                         *)
(***************************************************************************)
\* The cached value of the cell a referencing ROUND names, in the value view.
SnapshotOf(m) == as_float(ws_value(m.row, m.col))
\* The computed-value check of a row given its expected value (None: the
\* check is skipped) and the digits its tolerance derives from.
C15_Check(recs, f, expected, digits) ==
    IF IsNone(expected) \/ IsNone(f.e_value) THEN recs = <<>>
    ELSE /\ C7_RowHolds(recs, f, Val(expected), Abs(Val(expected) - Val(f.e_value)), digits)
         /\ recs # <<>> => recs[1].tol = Some(tol_from_round_digits(digits))
C15_Ref(rr, f, m, v) ==
    IF ~IsNone(v)
    THEN C15_Check(RecordsOf(rr, {"calc_text_check"}), f,
                   Some(round(MulFix(Val(v), m.mult), m.digits)), m.digits)
    ELSE C15_Check(RecordsOf(rr, {"calc_text_check"}), f,
                   ClaimExpected(f).expected, ClaimExpected(f).digits)
C15_Row(rr, f, m) ==
    ~RowIsBlank(f) /\ m.ok => C15_Ref(rr, f, m, SnapshotOf(m))
\* C15: when the pass has ended, for every processed row whose declared
\* formula is ROUND(cellRef[*k], n): if the referenced cell's cached value v
\* in the value view is numeric, the computed-value check compares the
\* declared value with round(v * k, n) (k = 1 when absent) under the tolerance
\* of n, whatever the basis text evaluates to; if v is not numeric the
\* expected value is that of the pure ROUND, else of the basis text, and
\* without either there is no calc_text_check record.
C15_SnapshotExpectation ==
    pc \in {"done", "crashed"} =>
        \A rr \in ProcessedRows :
            C15_Row(rr, RowFields(rr), RoundRefMatch(RowFields(rr).e_formula))
\* C15 witness: =ROUND(E2*1.04,3) with 104 cached in E2, declared 104, and a
\* basis 2*3 that evaluates to 6: the record's expected value is 108.16, of
\* the snapshot, under the tolerance 0.0006.
C15_Witness ==
    /\ pc = "done"
    /\ \E rr \in ProcessedRows :
          /\ RowFields(rr).e_formula = F_ROUND_E2x104_3
          /\ RowFields(rr).d_text = B_2x3
          /\ SnapshotOf(RoundRefMatch(RowFields(rr).e_formula)) = Some(104 * Scale)
          /\ \E k \in 1..Len(errors) :
                /\ errors[k].row = rr /\ errors[k].check_type = "calc_text_check"
                /\ errors[k].expected_value = Some(108160)
                /\ errors[k].actual_value = Some(104 * Scale)
                /\ errors[k].tol = Some([m |-> 6, e |-> -4])

====
